---- MODULE Spec2Model ----
(***************************************************************************)
(* Model of src/src/module_1/module_1_meteo_api.py: the month-splitting    *)
(* loop of get_meteo_data, the retry loop of fetch_data_interval and       *)
(* validate_response.  A datetime is its proleptic day number counted from *)
(* 1 January of BaseYear; a date string "%Y-%m-%d" is the triple           *)
(* <<year, month, day>> of its fields.                                     *)
(***************************************************************************)
EXTENDS Integers, Sequences, FiniteSets, TLC

VARIABLES
    entry,              \* the function the caller invoked
    city,               \* argument city
    start_date,         \* argument start_date (date string / datetime argument)
    end_date,           \* argument end_date
    interval,           \* argument interval
    pc,                 \* position of the running code
    current_date,       \* get_meteo_data: current_date (fetch: start_date argument)
    end_date_dt,        \* get_meteo_data: end_date_dt
    next_date,          \* get_meteo_data: next_date
    interval_end_date,  \* get_meteo_data: interval_end_date (fetch: end_date argument)
    all_data,           \* get_meteo_data: all_data
    params,             \* fetch_data_interval: params
    retries,            \* fetch_data_interval: retries
    calls,              \* requests.get call count of the running fetch
    waits,              \* time.sleep durations since the last requests.get
    data,               \* fetch_data_interval: data, the last response.json()
    e,                  \* fetch_data_interval: e, the exception last caught
    outcome,            \* how the last fetch_data_interval ended
    error,              \* the exception that left the entry function
    ranges,             \* the sub-ranges handed to fetch_data_interval so far
    main,               \* main and __main__: position, locals, log, exit status
    file                \* src/module_1: the directory, the CSV file, the PNG file

vars == <<entry, city, start_date, end_date, interval, pc, current_date,
          end_date_dt, next_date, interval_end_date, all_data, params,
          retries, calls, waits, data, e, outcome, error, ranges, main, file>>

----------------------------------------------------------------------------
\* Bounds of the checked instances.

BaseYear == 2019
NumStartDays == 425
NumAsmStartDays == 31
MaxSpan == 33
AsmMaxLen == 1
MaxLen == 2
LongSpanMin == 92
LongSpanMax == 95
MaxRows == 3
MainSpan == 31

----------------------------------------------------------------------------
\* Program constants.

COORDINATES ==
    [c \in {"Madrid", "London", "Rio de Janeiro"} |->
        CASE c = "Madrid" -> [latitude |-> 404168, longitude |-> -37038]
          [] c = "London" -> [latitude |-> 515074, longitude |-> -1278]
          [] OTHER        -> [latitude |-> -229068, longitude |-> -431729]]

WEATHER_VARIABLES ==
    <<"temperature_2m_mean", "precipitation_sum", "wind_speed_10m_max">>

MAX_RETRIES == 5
RETRY_DELAY == 5
PACING_DELAY == 1

----------------------------------------------------------------------------
\* The calendar of datetime.

IsLeap(y) == (y % 4 = 0) /\ ((y % 100 # 0) \/ (y % 400 = 0))

DaysInMonth(y, m) ==
    IF m = 2 THEN (IF IsLeap(y) THEN 29 ELSE 28)
    ELSE IF m \in {4, 6, 9, 11} THEN 30 ELSE 31

DaysInYear(y) == IF IsLeap(y) THEN 366 ELSE 365

RECURSIVE DaysBeforeYear(_)
DaysBeforeYear(y) ==
    IF y <= BaseYear THEN 0 ELSE DaysBeforeYear(y - 1) + DaysInYear(y - 1)

RECURSIVE DaysBeforeMonth(_, _)
DaysBeforeMonth(y, m) ==
    IF m <= 1 THEN 0 ELSE DaysBeforeMonth(y, m - 1) + DaysInMonth(y, m - 1)

\* datetime(y, m, d) as a day number.
ToOrdinal(y, m, d) == DaysBeforeYear(y) + DaysBeforeMonth(y, m) + d

RECURSIVE YearOfFrom(_, _)
YearOfFrom(n, y) ==
    IF n <= DaysBeforeYear(y + 1) THEN y ELSE YearOfFrom(n, y + 1)

RECURSIVE MonthOfFrom(_, _, _)
MonthOfFrom(k, y, m) ==
    IF k <= DaysBeforeMonth(y, m + 1) THEN m ELSE MonthOfFrom(k, y, m + 1)

YearOf(n) == YearOfFrom(n, BaseYear)
MonthOf(n) == MonthOfFrom(n - DaysBeforeYear(YearOf(n)), YearOf(n), 1)
DayOf(n) == n - DaysBeforeYear(YearOf(n)) - DaysBeforeMonth(YearOf(n), MonthOf(n))

\* datetime.strptime(s, "%Y-%m-%d") and datetime.strftime("%Y-%m-%d").
Strptime(s) == ToOrdinal(s[1], s[2], s[3])
Strftime(n) == <<YearOf(n), MonthOf(n), DayOf(n)>>

\* dt.replace(day=1)
ReplaceDay1(n) == ToOrdinal(YearOf(n), MonthOf(n), 1)

\* A step of 32 days that forgets replace(day=1).
NextDateWithoutReplace(cur) == cur + 32

\* A step that forgets the 32 days and lands on day 1 of the same month.
NextDateSameMonth(cur) == ReplaceDay1(cur)

\* (current_date + timedelta(days=32)).replace(day=1)
NextDate(cur) == ReplaceDay1(cur + 32)

Min(a, b) == IF a <= b THEN a ELSE b

\* A splitter that forgets to clip the last sub-range to the end date.
IntervalEndDateUnclipped(nxt, endDt) == nxt - 1

\* min(next_date - timedelta(days=1), end_date_dt)
IntervalEndDate(nxt, endDt) == Min(nxt - 1, endDt)

----------------------------------------------------------------------------
\* Values: dictionaries, outcomes and exceptions.

EmptyDict == [k \in {} |-> <<>>]

\* The value of data and params before they are assigned.
Unassigned == [None |-> <<>>]

NoException == [type |-> "none", status |-> 0]

NoOutcome == [kind |-> "none", key |-> "", records |-> <<>>]
Returned(rs) == [kind |-> "records", key |-> "", records |-> rs]
Raised(kind, key) == [kind |-> kind, key |-> key, records |-> <<>>]

\* main is not running; the file system plays no part.
NoMain == [pc |-> "none"]
NoFile == [dir |-> FALSE, exists |-> FALSE]

\* What requests.get / raise_for_status can raise.
TransportFailures ==
    { [type |-> "ConnectionError", status |-> 0],
      [type |-> "Timeout", status |-> 0],
      [type |-> "HTTPError", status |-> 404],
      [type |-> "HTTPError", status |-> 500] }

\* isinstance(exc, cls) for the exception classes the code names.
IsInstance(type, cls) ==
    \/ type = cls
    \/ cls = "RequestException" /\ type \in {"ConnectionError", "Timeout", "HTTPError"}
    \/ cls = "Exception"

DailyKeys == {"date"} \cup {WEATHER_VARIABLES[i] : i \in 1..Len(WEATHER_VARIABLES)}

KeyIndex(k) ==
    IF k = "date" THEN 0
    ELSE CHOOSE i \in 1..Len(WEATHER_VARIABLES) : WEATHER_VARIABLES[i] = k

\* The array of length len reported under key k: its entries are pairwise
\* distinct and differ from every entry of the other keys' arrays.
ArrayOf(k, len) == [i \in 1..len |-> 10 * KeyIndex(k) + i]

\* The JSON objects a response may carry: with or without "daily", which holds
\* any subset of the keys, each an array of at most n values.
Payloads(n) ==
    {EmptyDict} \cup
    {[daily |-> [k \in K |-> ArrayOf(k, len[k])]] :
        K \in SUBSET DailyKeys, len \in [DailyKeys -> 0..n]}

----------------------------------------------------------------------------
\* validate_response

\* A validator that walks the variables from the last one to the first.
RECURSIVE ValidateKeysBackwards(_, _)
ValidateKeysBackwards(daily, i) ==
    LET k == Len(WEATHER_VARIABLES) + 1 - i IN
    IF i > Len(WEATHER_VARIABLES) THEN NoOutcome
    ELSE IF WEATHER_VARIABLES[k] \notin DOMAIN daily
         THEN Raised("RuntimeError", WEATHER_VARIABLES[k])
         ELSE ValidateKeysBackwards(daily, i + 1)

RECURSIVE ValidateKeys(_, _)
ValidateKeys(daily, i) ==
    IF i > Len(WEATHER_VARIABLES) THEN NoOutcome
    ELSE IF WEATHER_VARIABLES[i] \notin DOMAIN daily
         THEN Raised("RuntimeError", WEATHER_VARIABLES[i])
         ELSE ValidateKeys(daily, i + 1)

ValidateResponse(d) ==
    IF "daily" \notin DOMAIN d THEN Raised("RuntimeError", "daily")
    ELSE ValidateKeys(d.daily, 1)

----------------------------------------------------------------------------
\* fetch_data_interval

\* Request parameters with the two dates swapped.
BuildParamsDatesSwapped(c, lat, lon, from, to) ==
    [latitude |-> lat, longitude |-> lon,
     start_date |-> Strftime(to), end_date |-> Strftime(from),
     daily |-> WEATHER_VARIABLES, timezone |-> "auto"]

\* The request parameters built on entry.
BuildParams(c, lat, lon, from, to) ==
    [latitude |-> lat, longitude |-> lon,
     start_date |-> Strftime(from), end_date |-> Strftime(to),
     daily |-> WEATHER_VARIABLES, timezone |-> "auto"]

\* A retry loop that runs once too often.
RetryLoopConditionOffByOne(r) == r <= MAX_RETRIES

\* while retries < MAX_RETRIES
RetryLoopCondition(r) == r < MAX_RETRIES

\* The first except clause of the try statement that matches the exception.
ExceptClause(exc) ==
    IF IsInstance(exc.type, "RequestException") THEN "RequestException"
    ELSE IF IsInstance(exc.type, "HTTPError") THEN "HTTPError"
    ELSE "none"

\* A record whose precipitation is read from the wind array.
RecordWrongArray(c, daily, i) ==
    [city |-> c,
     date |-> daily["date"][i],
     temperature_2m_mean |-> daily["temperature_2m_mean"][i],
     precipitation_sum |-> daily["wind_speed_10m_max"][i],
     wind_speed_10m_max |-> daily["wind_speed_10m_max"][i]]

\* One element of the returned list.
Record(c, daily, i) ==
    [city |-> c,
     date |-> daily["date"][i],
     temperature_2m_mean |-> daily["temperature_2m_mean"][i],
     precipitation_sum |-> daily["precipitation_sum"][i],
     wind_speed_10m_max |-> daily["wind_speed_10m_max"][i]]

\* daily_data = data["daily"]; dates = daily_data["date"]; the list comprehension.
ExtractRecords(c, d) ==
    LET daily == d.daily IN
    IF "date" \notin DOMAIN daily THEN Raised("KeyError", "date")
    ELSE IF \E i \in 1..Len(daily["date"]) :
              \E k \in 1..Len(WEATHER_VARIABLES) :
                 i > Len(daily[WEATHER_VARIABLES[k]])
         THEN Raised("IndexError", "list index out of range")
         ELSE Returned([i \in 1..Len(daily["date"]) |-> Record(c, daily, i)])

\* The try body after a response arrived with a success status.
ProcessResponse(c, d) ==
    LET v == ValidateResponse(d) IN
    IF v.kind # "none" THEN v ELSE ExtractRecords(c, d)

----------------------------------------------------------------------------
\* get_meteo_data

\* An assembler whose try statement has no except clause.
AssemblerCatchesNothing(kind) == FALSE

\* except RuntimeError
AssemblerCatches(kind) == IsInstance(kind, "RuntimeError")

\* A pacing sleep placed in the try body, after extend, instead of in finally.
WaitsAfterSuccessOnly(out, w) ==
    IF out.kind = "records" THEN Append(w, PACING_DELAY) ELSE w

\* finally: time.sleep(1), whatever the outcome of the attempt.
WaitsAfterAttempt(out, w) == Append(w, PACING_DELAY)

\* get_meteo_data is running: called directly, or by main for one of its
\* cities.
InGetMeteoData ==
    \/ entry = "get_meteo_data"
    \/ entry = "main" /\ main.pc = "cities"

\* An assignment in place of extend: the earlier records are lost.
ExtendReplacing(all, rs) == rs

\* all_data.extend(interval_data)
Extend(all, rs) == all \o rs

\* Control leaves fetch_data_interval with outcome out, w being the sleeps
\* since its last request.  Called from get_meteo_data, the try statement
\* around the call runs: extend, or the except clause, then the finally
\* clause.  Called directly, the outcome is the caller's.
FetchEnds(out, w) ==
    /\ outcome' = out
    /\ IF InGetMeteoData
       THEN /\ all_data' = IF out.kind = "records"
                           THEN Extend(all_data, out.records) ELSE all_data
            /\ current_date' = next_date
            /\ waits' = WaitsAfterAttempt(out, w)
            /\ IF out.kind = "records" \/ AssemblerCatches(out.kind)
               THEN pc' = "while" /\ error' = error
               ELSE pc' = "raised" /\ error' = out
       ELSE /\ all_data' = all_data
            /\ current_date' = current_date
            /\ waits' = w
            /\ IF out.kind = "records"
               THEN pc' = "returned" /\ error' = error
               ELSE pc' = "raised" /\ error' = out

----------------------------------------------------------------------------
\* Inputs.

Cities == DOMAIN COORDINATES \cup {"Atlantis"}
Intervals == {"month", "day"}

\* Valid date strings whose day is one of the first n days.
StartDates(n) ==
    {s \in (BaseYear..(BaseYear + 1)) \X (1..12) \X (1..31) :
        s[3] <= DaysInMonth(s[1], s[2]) /\ Strptime(s) <= n}

\* End dates from the day before the start date to MaxSpan days after it.
EndDates(s) ==
    {t \in (BaseYear..(BaseYear + 2)) \X (1..12) \X (1..31) :
        /\ t[3] <= DaysInMonth(t[1], t[2])
        /\ Strptime(t) >= Strptime(s) - 1
        /\ Strptime(t) >= 1
        /\ Strptime(t) <= Strptime(s) + MaxSpan}

\* End dates LongSpanMin to LongSpanMax days after the start date: ranges
\* of four or five sub-ranges.
LongEndDates(s) ==
    {t \in (BaseYear..(BaseYear + 2)) \X (1..12) \X (1..31) :
        /\ t[3] <= DaysInMonth(t[1], t[2])
        /\ Strptime(t) >= Strptime(s) + LongSpanMin
        /\ Strptime(t) <= Strptime(s) + LongSpanMax}

\* Frames handed to calculate_values: up to MaxRows rows of two cities on
\* the two days around a change of year, with all three variables or with
\* the temperature only.
CalcRows ==
    [city : {"Madrid", "London"},
     date : {<<BaseYear, 12, 31>>, <<BaseYear + 1, 1, 1>>},
     temperature_2m_mean : {5, 6, 7},
     precipitation_sum : {0, 1},
     wind_speed_10m_max : {15}]
    \cup
    [city : {"Madrid", "London"},
     date : {<<BaseYear, 12, 31>>, <<BaseYear + 1, 1, 1>>},
     temperature_2m_mean : {5, 6, 7}]

Frames ==
    UNION {{df \in [1..n -> CalcRows] :
               \A i \in 1..n : DOMAIN df[i] = DOMAIN df[1]} : n \in 0..MaxRows}

AsmPayloads == Payloads(AsmMaxLen)
SplitPayloads == Payloads(0)
FetchPayloads == Payloads(MaxLen)

----------------------------------------------------------------------------
\* calculate_values

\* A DataFrame is the sequence of its rows; a row maps column names to
\* cells. The frame built from an empty list has no columns.
HasColumn(df, c) == df # <<>> /\ c \in DOMAIN df[1]

\* data['date'] = pd.to_datetime(data['date']); data['year'] = data['date'].dt.year.
\* A date cell is the string <<y, m, d>> or the datetime <<ordinal>>; a cell
\* that is already a datetime stays as it is.
ToDatetime(cell) == IF Len(cell) = 1 THEN cell ELSE <<Strptime(cell)>>

WithYear(df) ==
    [i \in 1..Len(df) |->
        [c \in DOMAIN df[i] \cup {"year"} |->
            IF c = "date" THEN ToDatetime(df[i].date)
            ELSE IF c = "year" THEN YearOf(ToDatetime(df[i].date)[1])
            ELSE df[i][c]]]

\* The order in which groupby sorts the city names.
CityOrder(c) ==
    CASE c = "London" -> 1
      [] c = "Madrid" -> 2
      [] c = "Rio de Janeiro" -> 3
      [] OTHER -> 4

KeyLess(a, b) ==
    \/ CityOrder(a[1]) < CityOrder(b[1])
    \/ a[1] = b[1] /\ a[2] < b[2]

\* The distinct (city, year) keys of the frame, in sorted order.
GroupKeys(df) == {<<df[i].city, df[i].year>> : i \in 1..Len(df)}

RECURSIVE SortedKeys(_)
SortedKeys(K) ==
    IF K = {} THEN <<>>
    ELSE LET first == CHOOSE k \in K : \A o \in K \ {k} : KeyLess(k, o)
         IN <<first>> \o SortedKeys(K \ {first})

IsGroupRowByCity(r, key) == r.city = key[1]

\* The rows of one group.
IsGroupRow(r, key) == r.city = key[1] /\ r.year = key[2]

Group(df, key) == SelectSeq(df, LAMBDA r : IsGroupRow(r, key))

Column(group, v) == [i \in 1..Len(group) |-> group[i][v]]

RECURSIVE SeqSum(_)
SeqSum(xs) == IF xs = <<>> THEN 0 ELSE Head(xs) + SeqSum(Tail(xs))

RECURSIVE SeqMax(_)
SeqMax(xs) ==
    IF Len(xs) = 1 THEN xs[1]
    ELSE LET m == SeqMax(Tail(xs)) IN IF Head(xs) > m THEN Head(xs) ELSE m

RECURSIVE SeqMin(_)
SeqMin(xs) ==
    IF Len(xs) = 1 THEN xs[1]
    ELSE LET m == SeqMin(Tail(xs)) IN IF Head(xs) < m THEN Head(xs) ELSE m

RECURSIVE GCD(_, _)
GCD(a, b) == IF b = 0 THEN a ELSE GCD(b, a % b)

Abs(n) == IF n < 0 THEN -n ELSE n

\* The mean is kept exact, as a fraction in lowest terms.
Mean(xs) ==
    LET g == GCD(Abs(SeqSum(xs)), Len(xs))
    IN [num |-> SeqSum(xs) \div g, den |-> Len(xs) \div g]

\* One resumen: the key, and mean, max and min of every variable that is a
\* column of the group.
Resumen(key, group, variables) ==
    [city |-> key[1],
     year |-> key[2],
     stats |-> [v \in {x \in {variables[j] : j \in 1..Len(variables)} :
                          x \in DOMAIN group[1]} |->
                   [mean |-> Mean(Column(group, v)),
                    max |-> SeqMax(Column(group, v)),
                    min |-> SeqMin(Column(group, v))]]]

Resultados(df, variables) ==
    LET keys == SortedKeys(GroupKeys(df))
    IN [i \in 1..Len(keys) |-> Resumen(keys[i], Group(df, keys[i]), variables)]

\* calculate_values: the frame of resultados, or the KeyError of data['date'].
CalculateValues(df, variables) ==
    IF HasColumn(df, "date")
    THEN Returned(Resultados(WithYear(df), variables))
    ELSE Raised("KeyError", "date")

----------------------------------------------------------------------------
\* main and __main__

\* The cities in another order.
MainCitiesReordered == <<"London", "Madrid", "Rio de Janeiro">>

\* cities
MainCities == <<"Madrid", "London", "Rio de Janeiro">>

\* start_date and end_date of main, moved to the first year of the calendar
\* and shortened to MainSpan days.
MainStartDate == <<BaseYear, 1, 1>>
MainEndDate == Strftime(Strptime(MainStartDate) + MainSpan)

\* A check that never finds the file.
IsFileNever(f) == FALSE

\* Path(COMBINED_DATA_FILE).is_file()
IsFile(f) == f.exists

\* The order of the columns of a frame built from fetch_data_interval's
\* records.
ColumnOrder ==
    <<"city", "date", "temperature_2m_mean", "precipitation_sum",
      "wind_speed_10m_max">>

FrameColumns(df) == SelectSeq(ColumnOrder, LAMBDA c : c \in DOMAIN df[1])

\* A number is written as its text; city and date are text already.
CsvCell(c, v) == IF c \in {"city", "date"} THEN v ELSE [text |-> v]

\* DataFrame.to_csv(index=False): the header line and one line per row; the
\* frame without columns gives a file without header.
ToCsv(df) ==
    IF df = <<>> THEN [header |-> <<>>, rows |-> <<>>]
    ELSE LET h == FrameColumns(df)
         IN [header |-> h,
             rows |-> [i \in 1..Len(df) |->
                         [k \in 1..Len(h) |-> CsvCell(h[k], df[i][h[k]])]]]

ParseCell(c, cell) ==
    IF c = "date" THEN <<Strptime(cell)>>
    ELSE IF c = "city" THEN cell
    ELSE cell.text

\* pd.read_csv(file, parse_dates=["date"])
ReadCsv(csv) ==
    LET h == csv.header
        cols == {h[k] : k \in 1..Len(h)}
    IN IF h = <<>> THEN Raised("EmptyDataError", "No columns to parse from file")
       ELSE IF "date" \notin cols THEN Raised("ValueError", "parse_dates")
       ELSE Returned([i \in 1..Len(csv.rows) |->
                        [c \in cols |->
                            ParseCell(c, csv.rows[i][CHOOSE k \in 1..Len(h) : h[k] = c])]])

\* pd.concat(all_data, ignore_index=True)
RECURSIVE Concat(_)
Concat(frames) ==
    IF frames = <<>> THEN <<>> ELSE Head(frames) \o Concat(Tail(frames))

\* plot_city_yearly_statistics reads the city column and the three
\* statistics of every variable.
PlotCityYearlyStatistics(df) ==
    IF df = <<>> THEN Raised("KeyError", "city")
    ELSE IF \E k \in 1..Len(WEATHER_VARIABLES) :
               WEATHER_VARIABLES[k] \notin DOMAIN df[1].stats
    THEN Raised("KeyError", "mean")
    ELSE NoOutcome

\* An entry point that handles RuntimeError only.
TopLevelCatchesRuntimeErrorOnly(kind) == IsInstance(kind, "RuntimeError")

\* except Exception
TopLevelCatches(kind) == IsInstance(kind, "Exception")

\* The exception err leaves main: __main__ logs it and the interpreter
\* exits normally, or nothing handles it and the interpreter exits with a
\* traceback.
Escapes(m, err) ==
    [m EXCEPT !.pc = "exit",
              !.logged = IF TopLevelCatches(err.kind) THEN Append(@, err) ELSE @,
              !.status = IF TopLevelCatches(err.kind) THEN "exit 0" ELSE "exit 1"]

\* What the server may answer to the request p: no "daily", the variables
\* without the dates, or one day of the requested sub-range.
ServerPayloads(p) ==
    { EmptyDict,
      [daily |-> [k \in DailyKeys \ {"date"} |-> ArrayOf(k, 1)]],
      [daily |-> [k \in DailyKeys |->
                    IF k = "date" THEN <<p.start_date>> ELSE ArrayOf(k, 1)]] }

\* The files an earlier run, or somebody else, may have left.
EmptyCsv == ToCsv(<<>>)
StaleCsv ==
    [header |-> ColumnOrder,
     rows |-> << <<"London", <<BaseYear + 1, 6, 1>>, [text |-> 9], [text |-> 0],
                   [text |-> 30]>> >>]
TemperatureCsv ==
    [header |-> <<"city", "date", "temperature_2m_mean">>,
     rows |-> << <<"Madrid", <<BaseYear, 6, 1>>, [text |-> 9]>>,
                 <<"Madrid", <<BaseYear, 6, 2>>, [text |-> 8]>> >>]

FileSystems ==
    { [dir |-> FALSE, exists |-> FALSE, content |-> EmptyCsv, png |-> FALSE],
      [dir |-> TRUE, exists |-> FALSE, content |-> EmptyCsv, png |-> TRUE] }
    \cup
    { [dir |-> TRUE, exists |-> TRUE, content |-> c, png |-> g] :
        c \in {EmptyCsv, StaleCsv, TemperatureCsv}, g \in BOOLEAN }

----------------------------------------------------------------------------
\* Initial states: a call of get_meteo_data, or a direct call of
\* fetch_data_interval (as the tests make).

InitCommon ==
    /\ pc = "call"
    /\ current_date = 0
    /\ end_date_dt = 0
    /\ next_date = 0
    /\ interval_end_date = 0
    /\ all_data = <<>>
    /\ params = Unassigned
    /\ retries = 0
    /\ calls = 0
    /\ waits = <<>>
    /\ data = Unassigned
    /\ e = NoException
    /\ outcome = NoOutcome
    /\ error = NoOutcome
    /\ ranges = <<>>
    /\ main = NoMain
    /\ file = NoFile

Init ==
    /\ entry = "get_meteo_data"
    /\ city \in Cities
    /\ interval \in Intervals
    /\ start_date \in StartDates(NumAsmStartDays)
    /\ end_date \in EndDates(start_date)
    /\ InitCommon

InitSplit ==
    /\ entry = "get_meteo_data"
    /\ city = "Madrid"
    /\ interval = "month"
    /\ start_date \in StartDates(NumStartDays)
    /\ end_date \in EndDates(start_date)
    /\ InitCommon

InitLong ==
    /\ entry = "get_meteo_data"
    /\ city = "Madrid"
    /\ interval = "month"
    /\ start_date \in StartDates(NumStartDays)
    /\ end_date \in LongEndDates(start_date)
    /\ InitCommon

InitCalc ==
    /\ entry = "calculate_values"
    /\ city = "Madrid"
    /\ interval = "month"
    /\ start_date = <<BaseYear + 1, 1, 1>>
    /\ end_date = <<BaseYear + 1, 1, 3>>
    /\ pc = "call"
    /\ current_date = 0
    /\ end_date_dt = 0
    /\ next_date = 0
    /\ interval_end_date = 0
    /\ all_data = <<>>
    /\ params = Unassigned
    /\ retries = 0
    /\ calls = 0
    /\ waits = <<>>
    /\ data \in Frames
    /\ e = NoException
    /\ outcome = NoOutcome
    /\ error = NoOutcome
    /\ ranges = <<>>
    /\ main = NoMain
    /\ file = NoFile

InitMain ==
    /\ entry = "main"
    /\ city = ""
    /\ interval = "month"
    /\ start_date = <<>>
    /\ end_date = <<>>
    /\ pc = "idle"
    /\ current_date = 0
    /\ end_date_dt = 0
    /\ next_date = 0
    /\ interval_end_date = 0
    /\ all_data = <<>>
    /\ params = Unassigned
    /\ retries = 0
    /\ calls = 0
    /\ waits = <<>>
    /\ data = Unassigned
    /\ e = NoException
    /\ outcome = NoOutcome
    /\ error = NoOutcome
    /\ ranges = <<>>
    /\ main = [pc |-> "start", all_data |-> <<>>, combined_data |-> <<>>,
               calculate_vls |-> <<>>, writes |-> 0, logged |-> <<>>,
               status |-> "running"]
    /\ file \in FileSystems

InitValidate ==
    /\ entry = "validate_response"
    /\ city = "Madrid"
    /\ interval = "month"
    /\ start_date = <<BaseYear + 1, 1, 1>>
    /\ end_date = <<BaseYear + 1, 1, 3>>
    /\ pc = "call"
    /\ current_date = 0
    /\ end_date_dt = 0
    /\ next_date = 0
    /\ interval_end_date = 0
    /\ all_data = <<>>
    /\ params = Unassigned
    /\ retries = 0
    /\ calls = 0
    /\ waits = <<>>
    /\ data \in FetchPayloads
    /\ e = NoException
    /\ outcome = NoOutcome
    /\ error = NoOutcome
    /\ ranges = <<>>
    /\ main = NoMain
    /\ file = NoFile

InitFetch ==
    /\ entry = "fetch_data_interval"
    /\ city \in DOMAIN COORDINATES
    /\ interval = "month"
    /\ start_date = <<BaseYear + 1, 1, 1>>
    /\ end_date = <<BaseYear + 1, 1, 3>>
    /\ InitCommon

----------------------------------------------------------------------------
\* Actions.

\* A fetcher whose retry counter outlives the call.
EnterFetchKeepingRetries(c, from, to) ==
    /\ params' = BuildParams(c, COORDINATES[c].latitude, COORDINATES[c].longitude,
                             from, to)
    /\ retries' = retries
    /\ calls' = 0
    /\ data' = Unassigned
    /\ e' = NoException
    /\ outcome' = NoOutcome

\* fetch_data_interval, lines 65-73: params and retries = 0.
EnterFetch(c, from, to) ==
    /\ params' = BuildParams(c, COORDINATES[c].latitude, COORDINATES[c].longitude,
                             from, to)
    /\ retries' = 0
    /\ calls' = 0
    /\ data' = Unassigned
    /\ e' = NoException
    /\ outcome' = NoOutcome

\* get_meteo_data, lines 33-42.
GetMeteoData ==
    /\ InGetMeteoData
    /\ pc = "call"
    /\ IF city \notin DOMAIN COORDINATES
       THEN /\ pc' = "raised"
            /\ error' = Raised("ValueError", "city")
            /\ UNCHANGED <<current_date, end_date_dt>>
       ELSE IF interval # "month"
       THEN /\ pc' = "raised"
            /\ error' = Raised("ValueError", "interval")
            /\ UNCHANGED <<current_date, end_date_dt>>
       ELSE /\ pc' = "while"
            /\ current_date' = Strptime(start_date)
            /\ end_date_dt' = Strptime(end_date)
            /\ error' = error
    /\ UNCHANGED <<main, file, entry, city, start_date, end_date, interval, next_date,
                   interval_end_date, all_data, params, retries, calls, waits,
                   data, e, outcome, ranges>>

\* get_meteo_data, lines 44-50: one more iteration, up to the call of
\* fetch_data_interval and its first statements.
LoopBody ==
    /\ InGetMeteoData
    /\ pc = "while"
    /\ current_date <= end_date_dt
    /\ next_date' = NextDate(current_date)
    /\ interval_end_date' = IntervalEndDate(NextDate(current_date), end_date_dt)
    /\ ranges' = Append(ranges, <<current_date, interval_end_date'>>)
    /\ EnterFetch(city, current_date, interval_end_date')
    /\ pc' = "request"
    /\ UNCHANGED <<main, file, entry, city, start_date, end_date, interval, current_date,
                   end_date_dt, all_data, waits, error>>

\* get_meteo_data, lines 44 and 58: the loop ends and the data frame returns.
LoopExit ==
    /\ InGetMeteoData
    /\ pc = "while"
    /\ ~(current_date <= end_date_dt)
    /\ pc' = "returned"
    /\ UNCHANGED <<main, file, entry, city, start_date, end_date, interval, current_date,
                   end_date_dt, next_date, interval_end_date, all_data, params,
                   retries, calls, waits, data, e, outcome, error, ranges>>

\* A direct call of fetch_data_interval with datetime arguments.
FetchDataInterval ==
    /\ entry = "fetch_data_interval"
    /\ pc = "call"
    /\ current_date' = Strptime(start_date)
    /\ interval_end_date' = Strptime(end_date)
    /\ ranges' = Append(ranges, <<current_date', interval_end_date'>>)
    /\ EnterFetch(city, current_date', interval_end_date')
    /\ pc' = "request"
    /\ UNCHANGED <<main, file, entry, city, start_date, end_date, interval, end_date_dt,
                   next_date, all_data, waits, error>>

\* A retry without the sleep.
RequestFailsWithoutWait(exc) ==
    /\ pc = "request"
    /\ RetryLoopCondition(retries)
    /\ calls' = calls + 1
    /\ retries' = retries + 1
    /\ waits' = <<>>
    /\ e' = exc
    /\ UNCHANGED <<pc, outcome, all_data, current_date, error>>
    /\ UNCHANGED <<main, file, entry, city, start_date, end_date, interval, end_date_dt,
                   next_date, interval_end_date, params, data, ranges>>

\* fetch_data_interval, lines 75-78 and 94-104: the request raises exc.
RequestFails(exc) ==
    /\ pc = "request"
    /\ RetryLoopCondition(retries)
    /\ calls' = calls + 1
    /\ LET clause == ExceptClause(exc)
           retry == \/ clause = "RequestException"
                    \/ clause = "HTTPError" /\ exc.status # 404
       IN IF retry
          THEN /\ retries' = retries + 1
               /\ waits' = <<RETRY_DELAY>>
               /\ e' = exc
               /\ UNCHANGED <<pc, outcome, all_data, current_date, error>>
          ELSE /\ retries' = retries
               /\ e' = IF InGetMeteoData THEN NoException ELSE exc
               /\ FetchEnds(Raised(exc.type, "status"), <<>>)
    /\ UNCHANGED <<main, file, entry, city, start_date, end_date, interval, end_date_dt,
                   next_date, interval_end_date, params, data, ranges>>

\* A fetcher that treats a payload failing validation like a transport
\* failure: it counts a retry, sleeps and requests again.
RequestSucceedsRetryingMalformed(d) ==
    /\ pc = "request"
    /\ RetryLoopCondition(retries)
    /\ calls' = calls + 1
    /\ data' = IF InGetMeteoData THEN Unassigned ELSE d
    /\ IF ValidateResponse(d).kind # "none"
       THEN /\ retries' = retries + 1
            /\ waits' = <<RETRY_DELAY>>
            /\ UNCHANGED <<pc, outcome, all_data, current_date, error, e>>
       ELSE /\ retries' = retries
            /\ e' = IF InGetMeteoData THEN NoException ELSE e
            /\ FetchEnds(ProcessResponse(city, d), <<>>)
    /\ UNCHANGED <<main, file, entry, city, start_date, end_date, interval, end_date_dt,
                   next_date, interval_end_date, params, ranges>>

\* fetch_data_interval, lines 75-93: the request succeeds with JSON object d.
RequestSucceeds(d) ==
    /\ pc = "request"
    /\ RetryLoopCondition(retries)
    /\ calls' = calls + 1
    /\ data' = IF InGetMeteoData THEN Unassigned ELSE d
    /\ e' = IF InGetMeteoData THEN NoException ELSE e
    /\ FetchEnds(ProcessResponse(city, d), <<>>)
    /\ UNCHANGED <<main, file, entry, city, start_date, end_date, interval, end_date_dt,
                   next_date, interval_end_date, params, retries, ranges>>

\* fetch_data_interval, lines 75 and 105: the loop ends, RuntimeError.
RetriesExhausted ==
    /\ pc = "request"
    /\ ~RetryLoopCondition(retries)
    /\ e' = IF InGetMeteoData THEN NoException ELSE e
    /\ FetchEnds(Raised("RuntimeError", "max_retries"), waits)
    /\ UNCHANGED <<main, file, entry, city, start_date, end_date, interval, end_date_dt,
                   next_date, interval_end_date, params, retries, calls, data,
                   ranges>>

Next ==
    \/ GetMeteoData
    \/ LoopBody
    \/ LoopExit
    \/ \E exc \in TransportFailures : RequestFails(exc)
    \/ \E d \in AsmPayloads : RequestSucceeds(d)
    \/ RetriesExhausted

Spec == Init /\ [][Next]_vars

\* The same program over every start date of the window, with responses
\* whose arrays are empty.
NextSplit ==
    \/ GetMeteoData
    \/ LoopBody
    \/ LoopExit
    \/ \E exc \in TransportFailures : RequestFails(exc)
    \/ \E d \in SplitPayloads : RequestSucceeds(d)
    \/ RetriesExhausted

SpecSplit == InitSplit /\ [][NextSplit]_vars

\* get_meteo_data over ranges of several months.
SpecLong == InitLong /\ [][NextSplit]_vars

\* A direct call of validate_response on the argument data.
ValidateResponseCall ==
    /\ entry = "validate_response"
    /\ pc = "call"
    /\ outcome' = ValidateResponse(data)
    /\ IF outcome'.kind = "none"
       THEN pc' = "returned" /\ error' = error
       ELSE pc' = "raised" /\ error' = outcome'
    /\ UNCHANGED <<main, file, entry, city, start_date, end_date, interval, current_date,
                   end_date_dt, next_date, interval_end_date, all_data, params,
                   retries, calls, waits, data, e, ranges>>

SpecValidate == InitValidate /\ [][ValidateResponseCall]_vars

\* A direct call of calculate_values on the frame data with VARIABLES, as
\* main and the test make it; the frame is modified in place.
CalculateValuesCall ==
    /\ entry = "calculate_values"
    /\ pc = "call"
    /\ outcome' = CalculateValues(data, WEATHER_VARIABLES)
    /\ IF outcome'.kind = "records"
       THEN pc' = "returned" /\ error' = error /\ data' = WithYear(data)
       ELSE pc' = "raised" /\ error' = outcome' /\ data' = data
    /\ UNCHANGED <<main, file, entry, city, start_date, end_date, interval, current_date,
                   end_date_dt, next_date, interval_end_date, all_data, params,
                   retries, calls, waits, e, ranges>>

SpecCalc == InitCalc /\ [][CalculateValuesCall]_vars

\* main calls get_meteo_data(c, start_date, end_date): fresh locals.
CallGetMeteoData(c) ==
    /\ city' = c
    /\ interval' = "month"
    /\ pc' = "call"
    /\ current_date' = 0
    /\ end_date_dt' = 0
    /\ next_date' = 0
    /\ interval_end_date' = 0
    /\ all_data' = <<>>
    /\ params' = Unassigned
    /\ retries' = 0
    /\ calls' = 0
    /\ waits' = <<>>
    /\ data' = Unassigned
    /\ e' = NoException
    /\ outcome' = NoOutcome
    /\ error' = NoOutcome
    /\ ranges' = <<>>

\* main, lines 187-199: the directory, then the cached file if there is
\* one, else the first city.
MainStart ==
    /\ entry = "main"
    /\ main.pc = "start"
    /\ file' = [file EXCEPT !.dir = TRUE]
    /\ IF IsFile(file)
       THEN /\ LET r == ReadCsv(file.content)
               IN main' = IF r.kind = "records"
                          THEN [main EXCEPT !.pc = "calculate",
                                            !.combined_data = r.records]
                          ELSE Escapes(main, r)
            /\ UNCHANGED <<city, start_date, end_date, interval, pc,
                           current_date, end_date_dt, next_date,
                           interval_end_date, all_data, params, retries, calls,
                           waits, data, e, outcome, error, ranges>>
       ELSE /\ main' = [main EXCEPT !.pc = "cities"]
            /\ start_date' = MainStartDate
            /\ end_date' = MainEndDate
            /\ CallGetMeteoData(MainCities[1])
    /\ UNCHANGED entry

\* main, lines 201-204: get_meteo_data returned city_data; the next city.
MainNextCity ==
    /\ entry = "main"
    /\ main.pc = "cities"
    /\ pc = "returned"
    /\ Len(main.all_data) + 1 < Len(MainCities)
    /\ main' = [main EXCEPT !.all_data = Append(@, all_data)]
    /\ CallGetMeteoData(MainCities[Len(main.all_data) + 2])
    /\ UNCHANGED <<entry, start_date, end_date, file>>

\* main, lines 204-208: the last city returned; concat and to_csv.
MainSave ==
    /\ entry = "main"
    /\ main.pc = "cities"
    /\ pc = "returned"
    /\ Len(main.all_data) + 1 = Len(MainCities)
    /\ LET frames == Append(main.all_data, all_data)
       IN /\ main' = [main EXCEPT !.pc = "calculate",
                                  !.all_data = frames,
                                  !.combined_data = Concat(frames),
                                  !.writes = @ + 1]
          /\ file' = [file EXCEPT !.exists = TRUE, !.content = ToCsv(Concat(frames))]
    /\ pc' = "idle"
    /\ UNCHANGED <<entry, city, start_date, end_date, interval, current_date,
                   end_date_dt, next_date, interval_end_date, all_data, params,
                   retries, calls, waits, data, e, outcome, error, ranges>>

\* An exception left get_meteo_data: it leaves main too, lines 214-218.
MainCityRaises ==
    /\ entry = "main"
    /\ main.pc = "cities"
    /\ pc = "raised"
    /\ main' = Escapes(main, error)
    /\ UNCHANGED <<entry, city, start_date, end_date, interval, pc,
                   current_date, end_date_dt, next_date, interval_end_date,
                   all_data, params, retries, calls, waits, data, e, outcome,
                   error, ranges, file>>

\* main, lines 210-211: calculate_values, which adds the year column to
\* combined_data, then the plot, which saves the PNG file.
MainCalculate ==
    /\ entry = "main"
    /\ main.pc = "calculate"
    /\ LET r == CalculateValues(main.combined_data, WEATHER_VARIABLES)
           g == PlotCityYearlyStatistics(r.records)
       IN IF r.kind # "records"
          THEN main' = Escapes(main, r) /\ file' = file
          ELSE IF g.kind # "none"
          THEN /\ main' = Escapes([main EXCEPT
                                     !.combined_data = WithYear(@),
                                     !.calculate_vls = r.records], g)
               /\ file' = file
          ELSE /\ main' = [main EXCEPT !.pc = "exit",
                                       !.combined_data = WithYear(@),
                                       !.calculate_vls = r.records,
                                       !.status = "exit 0"]
               /\ file' = [file EXCEPT !.png = TRUE]
    /\ UNCHANGED <<entry, city, start_date, end_date, interval, pc,
                   current_date, end_date_dt, next_date, interval_end_date,
                   all_data, params, retries, calls, waits, data, e, outcome,
                   error, ranges>>

NextMain ==
    \/ MainStart
    \/ GetMeteoData
    \/ LoopBody
    \/ LoopExit
    \/ \E exc \in TransportFailures : RequestFails(exc)
    \/ \E d \in (IF pc = "request" THEN ServerPayloads(params) ELSE {}) :
          RequestSucceeds(d)
    \/ RetriesExhausted
    \/ MainNextCity
    \/ MainSave
    \/ MainCityRaises
    \/ MainCalculate

\* The program run as a script.
SpecMain == InitMain /\ [][NextMain]_vars

NextFetch ==
    \/ FetchDataInterval
    \/ \E exc \in TransportFailures : RequestFails(exc)
    \/ \E d \in FetchPayloads : RequestSucceeds(d)
    \/ RetriesExhausted

SpecFetch == InitFetch /\ [][NextFetch]_vars

----------------------------------------------------------------------------
\* Properties.

LastDayOfMonth(n) == ToOrdinal(YearOf(n), MonthOf(n), DaysInMonth(YearOf(n), MonthOf(n)))

SameMonth(a, b) == YearOf(a) = YearOf(b) /\ MonthOf(a) = MonthOf(b)

\* C1: the sub-ranges handed to the fetcher are contiguous, non-overlapping
\* and cover [start, end] exactly once: the first begins at the start date,
\* each later one begins on the day after the previous one ends, none is
\* empty or runs past the end date, and once the loop has run to its end the
\* last one ends exactly on the end date.
C1_SubRangesCoverRange ==
    (entry = "get_meteo_data" /\ pc # "call") =>
        /\ Len(ranges) >= 1 => ranges[1][1] = Strptime(start_date)
        /\ \A i \in 2..Len(ranges) : ranges[i][1] = ranges[i - 1][2] + 1
        /\ \A i \in 1..Len(ranges) :
              ranges[i][1] <= ranges[i][2] /\ ranges[i][2] <= Strptime(end_date)
        /\ (pc = "returned" /\ Strptime(start_date) <= Strptime(end_date)) =>
              /\ Len(ranges) >= 1
              /\ ranges[Len(ranges)][2] = Strptime(end_date)

\* C1 witness: a range that starts inside a month and ends inside a later
\* month was split into three sub-ranges, the last one clipped.
C1_Witness ==
    /\ pc = "returned"
    /\ Len(ranges) = 3
    /\ start_date[3] > 1
    /\ ranges[3][2] = Strptime(end_date)
    /\ ranges[3][2] < LastDayOfMonth(ranges[3][2])

\* C2: every sub-range lies inside one calendar month, and the first
\* sub-range runs from the start date through the last day of the start
\* date's month, or through the end date if that is earlier.
C2_SubRangeWithinOneMonth ==
    (entry = "get_meteo_data" /\ pc # "call") =>
        /\ \A i \in 1..Len(ranges) : SameMonth(ranges[i][1], ranges[i][2])
        /\ Len(ranges) >= 1 =>
              ranges[1][2] = Min(LastDayOfMonth(Strptime(start_date)), Strptime(end_date))

HasResponse(d) == "None" \notin DOMAIN d

\* The payload lacks "daily" or one of the variables.
Malformed(d) ==
    \/ "daily" \notin DOMAIN d
    \/ \E i \in 1..Len(WEATHER_VARIABLES) : WEATHER_VARIABLES[i] \notin DOMAIN d.daily

\* The payload has "daily" with "date" and the three variables, all arrays
\* of one length.
WellFormed(d) ==
    /\ "daily" \in DOMAIN d
    /\ DailyKeys \subseteq DOMAIN d.daily
    /\ \A k \in DailyKeys : Len(d.daily[k]) = Len(d.daily["date"])

MaxRetriesError == Raised("RuntimeError", "max_retries")

\* C3: a request answered 404 makes fetch_data_interval fail at once with
\* the HTTP error: no retry is counted, no retry wait follows, and when the
\* 404 answers the first request the call count is 1.
C3_NotFoundFailsImmediately ==
    (entry = "fetch_data_interval" /\ e.type = "HTTPError" /\ e.status = 404) =>
        /\ pc = "raised"
        /\ error.kind = "HTTPError"
        /\ waits = <<>>
        /\ calls = retries + 1

\* C4: fetch_data_interval never issues a sixth request; after each failed
\* request it has slept 5 units; when 5 requests have failed it raises the
\* RuntimeError of the exhausted retries, having issued exactly 5 requests.
C4_ExhaustsAfterFiveRequests ==
    /\ [](entry = "fetch_data_interval" =>
            /\ calls <= 5
            /\ (pc = "request" /\ e # NoException) =>
                  (waits = <<5>> /\ calls = retries)
            /\ outcome = MaxRetriesError =>
                  (pc = "raised" /\ error = MaxRetriesError /\ calls = 5
                   /\ retries = 5 /\ waits = <<5>>))
    /\ [][(entry = "fetch_data_interval" /\ pc = "request" /\ calls = 5) =>
            (outcome' = MaxRetriesError /\ pc' = "raised" /\ calls' = 5)]_vars

\* C4 witness: five requests failed, the last one with a 404, and the fetch
\* ended with the RuntimeError.
C4_Witness ==
    /\ entry = "fetch_data_interval"
    /\ pc = "raised"
    /\ error = MaxRetriesError
    /\ calls = 5
    /\ e.status = 404

C6_AssembleNeverFails ==
    (entry = "get_meteo_data" /\ city \in DOMAIN COORDINATES /\ interval = "month") =>
        pc # "raised"

\* C7: when a sub-range's fetch ends with the RuntimeError of the exhausted
\* retries (404 answers included), get_meteo_data goes on: no exception
\* leaves it, the records collected so far are kept, and the loop continues
\* with the sub-range that starts at next_date.
C7_FetchFailureDoesNotAbort ==
    [][(entry = "get_meteo_data" /\ pc = "request" /\ outcome' = MaxRetriesError) =>
          /\ pc' = "while"
          /\ error' = NoOutcome
          /\ all_data' = all_data
          /\ current_date' = interval_end_date + 1 \/ interval_end_date = end_date_dt
          /\ current_date' = next_date]_vars

\* C7 witness: the third sub-range is being requested right after the
\* second one exhausted its retries, with the first one's record kept.
C7_Witness ==
    /\ entry = "get_meteo_data"
    /\ pc = "request"
    /\ Len(ranges) = 3
    /\ calls = 0
    /\ waits = <<5, 1>>
    /\ Len(all_data) = 1

\* C8: a well-formed payload on the first request ends fetch_data_interval
\* after exactly one request with one record per entry of the date array, in
\* array order, record i carrying the city, date[i] and the i-th entry of
\* each variable's array.
C8_OneRecordPerDate ==
    (entry = "fetch_data_interval" /\ HasResponse(data) /\ WellFormed(data)
       /\ retries = 0) =>
        /\ pc = "returned"
        /\ calls = 1
        /\ outcome.kind = "records"
        /\ Len(outcome.records) = Len(data.daily["date"])
        /\ \A i \in 1..Len(data.daily["date"]) :
              /\ outcome.records[i].city = city
              /\ outcome.records[i].date = data.daily["date"][i]
              /\ outcome.records[i].temperature_2m_mean = data.daily["temperature_2m_mean"][i]
              /\ outcome.records[i].precipitation_sum = data.daily["precipitation_sum"][i]
              /\ outcome.records[i].wind_speed_10m_max = data.daily["wind_speed_10m_max"][i]

\* C8 witness: a payload of two dates was returned as two records.
C8_Witness ==
    /\ entry = "fetch_data_interval"
    /\ pc = "returned"
    /\ calls = 1
    /\ HasResponse(data)
    /\ WellFormed(data)
    /\ Len(outcome.records) = 2

\* The key validate_response is to name for a payload it rejects.
ExpectedMissingKey(d) ==
    IF "daily" \notin DOMAIN d THEN "daily"
    ELSE IF "temperature_2m_mean" \notin DOMAIN d.daily THEN "temperature_2m_mean"
    ELSE IF "precipitation_sum" \notin DOMAIN d.daily THEN "precipitation_sum"
    ELSE "wind_speed_10m_max"

\* C9: validate_response returns silently exactly when the payload has
\* "daily" holding every variable; otherwise it raises naming "daily" if that
\* is absent, else the first missing variable in the declared order.
C9_ValidateNamesFirstMissingKey ==
    (entry = "validate_response" /\ pc # "call") =>
        /\ (pc = "returned") <=> ~Malformed(data)
        /\ (pc = "raised") <=> Malformed(data)
        /\ pc = "raised" =>
              error = Raised("RuntimeError", ExpectedMissingKey(data))

\* C9 witness: a payload lacking both precipitation_sum and
\* wind_speed_10m_max was rejected.
C9_Witness ==
    /\ entry = "validate_response"
    /\ pc = "raised"
    /\ "daily" \in DOMAIN data
    /\ "temperature_2m_mean" \in DOMAIN data.daily
    /\ "precipitation_sum" \notin DOMAIN data.daily
    /\ "wind_speed_10m_max" \notin DOMAIN data.daily

\* C10: whenever a sub-range attempt of get_meteo_data is over, however it
\* ended, the last thing done was a sleep of 1 unit; in particular the first
\* request of every sub-range but the first is preceded by that sleep.
C10_PacingBetweenSubRanges ==
    (/\ entry = "get_meteo_data"
     /\ \/ pc = "request" /\ calls = 0 /\ Len(ranges) >= 2
        \/ pc \in {"while", "returned", "raised"} /\ Len(ranges) >= 1) =>
        (waits # <<>> /\ waits[Len(waits)] = 1)

\* C10 witness: the second sub-range is about to be requested after the
\* first one failed validation.
C10_Witness ==
    /\ entry = "get_meteo_data"
    /\ pc = "request"
    /\ calls = 0
    /\ Len(ranges) = 2
    /\ waits = <<1>>
    /\ all_data = <<>>

ValidDateString(s) ==
    /\ s[2] \in 1..12
    /\ s[3] \in 1..DaysInMonth(s[1], s[2])

C16_RequestParameters ==
    /\ []((entry = "get_meteo_data" /\ pc = "request") =>
            /\ ValidDateString(params.start_date)
            /\ ValidDateString(params.end_date)
            /\ Strptime(params.start_date) = ranges[Len(ranges)][1]
            /\ Strptime(params.end_date) = ranges[Len(ranges)][2]
            /\ Len(ranges) = 1 => params.start_date = start_date
            /\ ranges[Len(ranges)][2] = Strptime(end_date) => params.end_date = end_date
            /\ params.latitude =
                  (CASE city = "Madrid" -> 404168 [] city = "London" -> 515074
                     [] city = "Rio de Janeiro" -> -229068)
            /\ params.longitude =
                  (CASE city = "Madrid" -> -37038 [] city = "London" -> -1278
                     [] city = "Rio de Janeiro" -> -431729)
            /\ params.daily =
                  <<"temperature_2m_mean", "precipitation_sum", "wind_speed_10m_max">>
            /\ params.timezone = "auto")
    /\ [][(pc = "request" /\ pc' = "request") => params' = params]_vars

\* C16 witness: the fourth request of the second sub-range.
C16_Witness ==
    /\ entry = "get_meteo_data"
    /\ pc = "request"
    /\ Len(ranges) = 2
    /\ retries = 3
    /\ ranges[2][1] < ranges[2][2]

\* C17: the retry counter stays within 0..5, is 0 when a sub-range's first
\* request is about to be issued, whatever happened to the sub-ranges before,
\* and only grows while the sub-range is being fetched.
C17_RetryBudgetPerSubRange ==
    /\ [](entry = "get_meteo_data" =>
            /\ retries \in 0..5
            /\ (pc = "request" /\ calls = 0) => retries = 0)
    /\ [][entry = "get_meteo_data" =>
            /\ (pc = "request" /\ pc' = "request") => retries' = retries + 1
            /\ (pc = "while" /\ pc' = "request") => retries' = 0]_vars

\* C17 witness: a sub-range starts with a fresh counter right after the
\* sub-range before it exhausted its retries.
C17_Witness ==
    /\ entry = "get_meteo_data"
    /\ pc = "request"
    /\ Len(ranges) = 2
    /\ calls = 0
    /\ retries = 0
    /\ waits = <<5, 1>>

\* C18: when k requests failed and the next one brings a well-formed
\* payload, fetch_data_interval returns that payload's records after k + 1
\* requests; each failed request was followed by one sleep of 5 units; no
\* step follows the return.
C18_SuccessAfterFailures ==
    /\ []((entry = "fetch_data_interval" /\ HasResponse(data) /\ WellFormed(data)) =>
            /\ pc = "returned"
            /\ retries \in 0..4
            /\ calls = retries + 1
            /\ waits = <<>>
            /\ Len(outcome.records) = Len(data.daily["date"])
            /\ \A i \in 1..Len(outcome.records) :
                  /\ outcome.records[i].date = data.daily["date"][i]
                  /\ outcome.records[i].temperature_2m_mean
                        = data.daily["temperature_2m_mean"][i])
    /\ [][entry = "fetch_data_interval" =>
            /\ pc # "returned"
            /\ (pc = "request" /\ pc' = "request") =>
                  (retries' = retries + 1 /\ calls' = calls + 1 /\ waits' = <<5>>)]_vars

\* C18 witness: four failures, then two records.
C18_Witness ==
    /\ entry = "fetch_data_interval"
    /\ pc = "returned"
    /\ retries = 4
    /\ calls = 5
    /\ Len(outcome.records) = 2

\* The steps get_meteo_data can still take are bounded by Rank.
Rank ==
    LET left == IF current_date <= end_date_dt
                THEN end_date_dt - current_date + 1 ELSE 0
    IN CASE pc = "call" -> 8 * (MaxSpan + 2) + 8
         [] pc = "while" -> 8 * left + 7
         [] pc = "request" -> 8 * left + 6 - retries
         [] OTHER -> 0

\* C19: get_meteo_data terminates: every step lowers Rank and only a return
\* or an exception stops it; current_date grows on every iteration, however
\* the fetch ended; a sub-range gets at least 1 and at most 5 requests; a
\* start date after the end date gives no request and an empty dataset.
C19_Terminates ==
    /\ [](entry = "get_meteo_data" =>
            /\ Rank >= 0
            /\ pc \in {"returned", "raised"} \/ ENABLED Next
            /\ calls <= 5
            /\ (pc = "returned" /\ Strptime(start_date) > Strptime(end_date)) =>
                  (ranges = <<>> /\ all_data = <<>> /\ calls = 0 /\ waits = <<>>))
    /\ [][entry = "get_meteo_data" =>
            /\ Rank' < Rank
            /\ (pc = "request" /\ pc' # "request") =>
                  (current_date' > current_date /\ calls' \in 1..5)]_vars

\* C19 witness: three sub-ranges, the last one failed, and the call returned.
C19_Witness ==
    /\ entry = "get_meteo_data"
    /\ pc = "returned"
    /\ Len(ranges) = 3
    /\ outcome = MaxRetriesError

\* C13: every sub-range that is neither the first nor the last starts on day
\* 1 of a month and ends on the last day of that month, and the sub-range
\* after it starts on day 1 of the following month.
C13_InteriorSubRangesAreMonths ==
    (entry = "get_meteo_data" /\ pc # "call") =>
        \A i \in 2..Len(ranges) :
            ranges[i][2] < Strptime(end_date) =>
                /\ DayOf(ranges[i][1]) = 1
                /\ ranges[i][2] = LastDayOfMonth(ranges[i][1])
                /\ i < Len(ranges) =>
                      /\ DayOf(ranges[i + 1][1]) = 1
                      /\ IF MonthOf(ranges[i][1]) = 12
                         THEN /\ MonthOf(ranges[i + 1][1]) = 1
                              /\ YearOf(ranges[i + 1][1]) = YearOf(ranges[i][1]) + 1
                         ELSE /\ MonthOf(ranges[i + 1][1]) = MonthOf(ranges[i][1]) + 1
                              /\ YearOf(ranges[i + 1][1]) = YearOf(ranges[i][1])

\* C13 witness: five sub-ranges from a mid-month start; the three interior
\* ones are December, January and the February of a leap year.
C13_Witness ==
    /\ entry = "get_meteo_data"
    /\ pc = "returned"
    /\ Len(ranges) = 5
    /\ start_date[3] > 1
    /\ MonthOf(ranges[2][1]) = 12
    /\ MonthOf(ranges[3][1]) = 1
    /\ DayOf(ranges[4][2]) = 29
    /\ ranges[5][2] = Strptime(end_date)

\* The rows of the frame that belong to the summary row r.
RowsOf(r) == {j \in 1..Len(data) : data[j].city = r.city /\ data[j].year = r.year}

RECURSIVE SumOver(_, _)
SumOver(J, v) ==
    IF J = {} THEN 0
    ELSE LET j == CHOOSE x \in J : TRUE IN data[j][v] + SumOver(J \ {j}, v)

\* C14: calculate_values returns one summary row for every (city, year) that
\* occurs among the records, no other row and no row twice, the year being
\* the calendar year of the record's date; for each variable of the frame
\* the row's max and min are the largest and smallest value of the group and
\* its mean is the sum of the group's values divided by their number.
C14_OneSummaryPerCityYear ==
    (entry = "calculate_values" /\ pc = "returned") =>
        LET rows == outcome.records
        IN /\ \A j \in 1..Len(data) :
                 /\ ToOrdinal(data[j].year, 1, 1) <= data[j].date[1]
                 /\ data[j].date[1] < ToOrdinal(data[j].year + 1, 1, 1)
                 /\ \E i \in 1..Len(rows) : j \in RowsOf(rows[i])
           /\ \A i \in 1..Len(rows) : RowsOf(rows[i]) # {}
           /\ \A i, k \in 1..Len(rows) :
                 (rows[i].city = rows[k].city /\ rows[i].year = rows[k].year) => i = k
           /\ \A i \in 1..Len(rows) :
                 /\ DOMAIN rows[i].stats =
                       DOMAIN data[1] \cap
                          {"temperature_2m_mean", "precipitation_sum", "wind_speed_10m_max"}
                 /\ \A v \in DOMAIN rows[i].stats :
                       LET st == rows[i].stats[v]
                           J == RowsOf(rows[i])
                       IN /\ \E j \in J : data[j][v] = st.max
                          /\ \A j \in J : data[j][v] <= st.max
                          /\ \E j \in J : data[j][v] = st.min
                          /\ \A j \in J : data[j][v] >= st.min
                          /\ st.mean.den > 0
                          /\ st.mean.num * Cardinality(J) = SumOver(J, v) * st.mean.den

\* C14 witness: three Madrid records of one year with temperatures 5, 6, 7
\* give one row with mean 6, max 7, min 5.
C14_Witness ==
    /\ entry = "calculate_values"
    /\ pc = "returned"
    /\ Len(data) = 3
    /\ \A j \in 1..3 : data[j].city = "Madrid" /\ data[j].year = BaseYear + 1
    /\ data[1].temperature_2m_mean = 5
    /\ data[2].temperature_2m_mean = 6
    /\ data[3].temperature_2m_mean = 7
    /\ Len(outcome.records) = 1
    /\ outcome.records[1].stats["temperature_2m_mean"] =
          [mean |-> [num |-> 6, den |-> 1], max |-> 7, min |-> 5]

\* The cached file was there when main started: it exists and main has not
\* written it.
CacheHit == file.exists /\ main.writes = 0

\* C11: when the cached file exists at the start of main, get_meteo_data is
\* never entered and no request is issued, the file keeps its content, and
\* the frame handed to calculate_values is the file's: the same rows in the
\* same order with the same city, date and values; a request is issued only
\* while the file is absent.
C11_CacheShortCircuitsFetch ==
    /\ [](entry = "main" =>
            /\ CacheHit =>
                  /\ main.pc \in {"start", "calculate", "exit"}
                  /\ pc = "idle"
                  /\ calls = 0
                  /\ ranges = <<>>
                  /\ main.all_data = <<>>
            /\ (CacheHit /\ main.pc = "calculate") =>
                  /\ Len(main.combined_data) = Len(file.content.rows)
                  /\ \A i \in 1..Len(main.combined_data) :
                        /\ main.combined_data[i].city = file.content.rows[i][1]
                        /\ Strftime(main.combined_data[i].date[1])
                              = file.content.rows[i][2]
                        /\ main.combined_data[i].temperature_2m_mean
                              = file.content.rows[i][3].text
            /\ pc = "request" => ~file.exists)
    /\ [][(entry = "main" /\ CacheHit) =>
            /\ file'.content = file.content
            /\ (main.pc = "calculate" /\ main'.logged = <<>>) =>
                  /\ Len(main'.calculate_vls) >= 1
                  /\ \A i \in 1..Len(main'.calculate_vls) :
                        \E j \in 1..Len(main.combined_data) :
                           main'.calculate_vls[i].city = main.combined_data[j].city]_vars

\* C11 witness: a run on the file of another run ends with the statistics
\* of that file's only city, without any request.
C11_Witness ==
    /\ entry = "main"
    /\ main.pc = "exit"
    /\ CacheHit
    /\ file.content = StaleCsv
    /\ main.logged = <<>>
    /\ Len(main.calculate_vls) = 1
    /\ main.calculate_vls[1].city = "London"
    /\ main.calculate_vls[1].year = BaseYear + 1

\* C12: an exception that leaves main is logged by the entry point, once,
\* and the process exits normally: the exit status is never an error, a run
\* never stops before the exit, and a run that exits without a logged error
\* has completed the pipeline.
C12_TopLevelCatchesEverything ==
    /\ [](entry = "main" =>
            /\ main.status \in {"running", "exit 0"}
            /\ Len(main.logged) <= 1
            /\ main.pc = "exit" <=> main.status = "exit 0"
            /\ main.logged # <<>> => main.pc = "exit"
            /\ main.pc # "exit" => ENABLED NextMain
            /\ (main.pc = "exit" /\ main.logged = <<>>) =>
                  (file.png /\ file.exists /\ main.calculate_vls # <<>>))
    /\ [][(entry = "main" /\ pc = "raised") =>
            /\ main'.pc = "exit"
            /\ main'.logged = <<error>>
            /\ main'.status = "exit 0"]_vars

\* C12 witness: the KeyError of a response without dates left the second
\* city's get_meteo_data and was logged.
C12_Witness ==
    /\ entry = "main"
    /\ main.pc = "exit"
    /\ main.status = "exit 0"
    /\ Len(main.all_data) = 1
    /\ pc = "raised"
    /\ main.logged = <<Raised("KeyError", "date")>>

\* C20: without a cached file the cities are assembled in the order
\* Madrid, London, Rio de Janeiro, each after the one before it returned, and
\* every request is for the city being assembled; the file is written once,
\* when all three have returned, and not at all when an exception left one
\* of them.
C20_CitiesInOrderThenOneWrite ==
    /\ [](entry = "main" =>
            /\ main.pc = "cities" =>
                  /\ Len(main.all_data) < 3
                  /\ city = <<"Madrid", "London", "Rio de Janeiro">>[Len(main.all_data) + 1]
                  /\ ~file.exists
                  /\ main.writes = 0
            /\ pc = "request" =>
                  params.latitude =
                     <<404168, 515074, -229068>>[Len(main.all_data) + 1]
            /\ \A i \in 1..Len(main.all_data) :
                  \A j \in 1..Len(main.all_data[i]) :
                     main.all_data[i][j].city
                        = <<"Madrid", "London", "Rio de Janeiro">>[i]
            /\ main.writes <= 1
            /\ main.writes = 1 <=> Len(main.all_data) = 3
            /\ main.writes = 1 => (file.exists /\ main.pc \in {"calculate", "exit"})
            /\ (main.pc = "exit" /\ pc = "raised") =>
                  (~file.exists /\ main.writes = 0))
    /\ [][entry = "main" =>
            /\ main'.all_data # main.all_data =>
                  (pc = "returned" /\ main'.all_data = Append(main.all_data, all_data))
            /\ (main.pc = "cities" /\ city' # city) => pc = "returned"
            /\ main'.writes # main.writes =>
                  file'.content.rows =
                     [i \in 1..Len(main'.combined_data) |->
                        <<main'.combined_data[i].city, main'.combined_data[i].date,
                          [text |-> main'.combined_data[i].temperature_2m_mean],
                          [text |-> main'.combined_data[i].precipitation_sum],
                          [text |-> main'.combined_data[i].wind_speed_10m_max]>>]]_vars

\* C20 witness: all three cities returned, London without a record, and
\* the file holds Madrid's rows followed by Rio de Janeiro's.
C20_Witness ==
    /\ entry = "main"
    /\ main.pc = "exit"
    /\ main.writes = 1
    /\ main.all_data[2] = <<>>
    /\ Len(file.content.rows) = 3
    /\ file.content.rows[1][1] = "Madrid"
    /\ file.content.rows[3][1] = "Rio de Janeiro"

\* A run in which an exception left a city's get_meteo_data ends without
\* a file.
C20_WitnessNoFile ==
    /\ entry = "main"
    /\ main.pc = "exit"
    /\ pc = "raised"
    /\ Len(main.all_data) = 2
    /\ ~file.exists

====
